---- MODULE Spec2Model ----
(***************************************************************************)
(* Model of gosoline's chained key-value store (package kvstore,           *)
(* ChainKvStore) : an ordered chain of backing stores, an optional         *)
(* "missing value" (negative) cache, and the five operations Contains,     *)
(* Get, GetBatch, Put and PutBatch.                                        *)
(*                                                                         *)
(* Every operation is one action that runs the whole method.  The errors   *)
(* of the backing stores are inputs of the action: failR / failW are the   *)
(* chain indices whose read / write call returns an error during this      *)
(* operation (a method calls each element at most once for reading and at  *)
(* most once for writing), ncFailR / ncFailW / ncFailDel the same for the  *)
(* missing value cache.                                                    *)
(*                                                                         *)
(* Spec is one caller on a chain of up to MaxTiers stores; SpecCancel adds *)
(* contexts that are cancelled; SpecDeep is the same caller on a chain of  *)
(* DeepTiers stores; SpecConc runs a Get or Contains and a Put of the same *)
(* key concurrently, one store call per step; SpecConsume is package       *)
(* mdlsub's SubscriberCallback.Consume; SpecSqs is package sqs's           *)
(* service.CreateQueue called by several goroutines.                       *)
(***************************************************************************)
EXTENDS Integers, Sequences, FiniteSets, TLC

\* ------------------------------------------------------------------ bounds
MaxTiers == 2
NumKeys == 2
NumValues == 2
MaxBatch == 2
DeepTiers == 3
ConcTiers == 2
NumModels == 2
NumVersions == 2
NumCallers == 2
NumQueues == 2

Keys == 1..NumKeys
Values == 1..NumValues

\* The content of one store: a finite map from keys to values.
Maps == UNION {[D -> Values] : D \in SUBSET Keys}
EmptyMap == <<>>

\* The key sequences a caller hands to GetBatch (duplicates permitted).
KeySeqs == UNION {[1..n -> Keys] : n \in 0..MaxBatch}

\* All enumerations of a finite set (Go's map iteration order is unspecified).
Orders(S) == {s \in [1..Cardinality(S) -> S] : {s[j] : j \in DOMAIN s} = S}

Range(s) == {s[j] : j \in DOMAIN s}

VARIABLES
    chain,               \* s.chain: index 0..n-1 -> content of that store
    missingCacheEnabled, \* s.missingCacheEnabled
    missingCache,        \* s.missingCache: the keys stored with noValue
    last,                \* the call the caller has just made: arguments,
                         \* results and the store calls it issued, in order
    ctxDone,             \* ctx.Done() of the context the caller passes
    conc,                \* two callers running concurrently: where each is
                         \* in its method and what its locals hold
    sub,                 \* a SubscriberCallback: s.transformers, s.outputs and
                         \* the outcome of its last Consume
    svc                  \* an sqs *service, the queues its client knows and
                         \* the goroutines that call CreateQueue on it

vars == <<chain, missingCacheEnabled, missingCache, last, ctxDone, conc, sub, svc>>

\* ------------------------------------------------- the KvStore interface
\* What one store does when its call does not fail.
TContains(store, key) == key \in DOMAIN store

TGetBatchMissing(store, todo) == SelectSeq(todo, LAMBDA k : k \notin DOMAIN store)

TGetBatchValues(store, todo, values) ==
    [k \in DOMAIN values \cup (Range(todo) \cap DOMAIN store) |->
        IF k \in Range(todo) \cap DOMAIN store THEN store[k] ELSE values[k]]

TPutBatch(store, values) ==
    [k \in DOMAIN store \cup DOMAIN values |->
        IF k \in DOMAIN values THEN values[k] ELSE store[k]]

\* A call that returns an error returns Go's zero results with it and leaves
\* the store as it was.
TErrMissing == <<>>

\* ------------------------------------------------------- the call record
StoreCall(cache, i, op, keys, err, present, vals) ==
    [cache |-> cache, i |-> i, op |-> op, keys |-> keys, err |-> err,
     present |-> present, vals |-> vals]

TierCall(i, op, keys, err, present, vals) ==
    StoreCall(FALSE, i, op, keys, err, present, vals)

CacheCall(op, keys, err, present, vals) ==
    StoreCall(TRUE, 0, op, keys, err, present, vals)

Result(op, keys, values, exists, missing, err, foundInIndex, calls) ==
    [op |-> op, keys |-> keys, values |-> values, exists |-> exists,
     missing |-> missing, err |-> err, foundInIndex |-> foundInIndex,
     calls |-> calls,
     \* whether refl could morph the caller's keys / values, and what the
     \* returned error reports
     keysOk |-> TRUE, valuesOk |-> TRUE,
     cause |-> IF ~err THEN "none" ELSE IF ctxDone THEN "canceled" ELSE "store",
     \* every error is returned as fmt.Errorf("...: %w", err)
     wrapped |-> err]

Idle == Result("none", <<>>, EmptyMap, FALSE, <<>>, FALSE, 0, <<>>)

\* The locals of a Get or Contains (r) and of a Put (w) of the same key that
\* run concurrently; pc is the store call the method makes next.
Reader(op, pc) ==
    [op |-> op, pc |-> pc, i |-> 0, exists |-> FALSE, value |-> EmptyMap,
     foundInIndex |-> 0, err |-> FALSE,
     \* where the Put stood when this method wrote to the missing value cache
     wPcAtMiss |-> "none"]

Writer(value, pc) == [pc |-> pc, i |-> 0, value |-> value, err |-> FALSE]

Callers(key, r, w) ==
    [key |-> key, r |-> r, w |-> w,
     \* whether a store call of one of the two has returned an error
     failed |-> FALSE]

NoConc == Callers(0, Reader("none", "none"), Writer(0, "none"))

\* ------------------------------------------------- SubscriberCallback
ModelIds == 1..NumModels
Versions == 1..NumVersions

\* ModelTransformers and Outputs: the (modelId, version) pairs that have an
\* entry in the map of maps.
Registrations == SUBSET (ModelIds \X Versions)

\* What a call of Consume did: its arguments, what the transformer returned,
\* the results (ok, err), whether output.Persist was entered and whether the
\* call ended in a run-time panic instead of returning.
Outcome(called, modelId, version, transformed, ok, err, persisted, panicked) ==
    [called |-> called, modelId |-> modelId, version |-> version,
     transformed |-> transformed, ok |-> ok, err |-> err,
     persisted |-> persisted, panicked |-> panicked]

NoOutcome == Outcome(FALSE, 0, 0, "none", FALSE, FALSE, FALSE, FALSE)

Subscriber(transformers, outputs, res) ==
    [transformers |-> transformers, outputs |-> outputs, res |-> res]

NoSub == Subscriber({}, {}, NoOutcome)

\* ------------------------------------------------------- sqs service
Goroutines == 1..NumCallers
QueueNames == 1..NumQueues

\* The queue of a name and its dead letter queue ("%s-dead").
Queue(name) == <<name, FALSE>>
DeadLetterQueue(name) == <<name, TRUE>>

\* One goroutine's call of CreateQueue: the statement it executes next, the
\* sync.Mutex of its receiver (the method has a value receiver: s is a copy
\* of the service made at the call), its input and its results.
Call(pc, lck, name, redrive, ok, err) ==
    [pc |-> pc, lck |-> lck, name |-> name, redrive |-> redrive,
     ok |-> ok, err |-> err]

NotCalling == Call("idle", FALSE, 0, FALSE, FALSE, FALSE)

\* The service a *service points to: its mutex and settings.AutoCreate; the
\* queues that exist at the client; the goroutines.
Service(lck, autoCreate, queues, calls) ==
    [lck |-> lck, autoCreate |-> autoCreate, queues |-> queues, calls |-> calls]

NoSvc == Service(FALSE, FALSE, {}, <<>>)

\* ------------------------------------------------------------ the engine
ChainLen == Cardinality(DOMAIN chain)
lastElementIndex == ChainLen - 1

\* The elements whose call fails: a store cannot work on a payload that refl
\* cannot morph, so its call returns an error.
TierFailures(payloadOk, fail) == IF payloadOk THEN fail ELSE DOMAIN chain

\* Every failing element aborts the operation.
IsFatalAlways(i) == TRUE

\* No failing element aborts the operation.
IsFatalNever(i) == FALSE

\* "return error only if last element fails"
IsFatal(i) == i = lastElementIndex

Init ==
    /\ chain = <<>>
    /\ missingCacheEnabled \in BOOLEAN
    /\ missingCache = {}
    /\ last = Idle
    /\ ctxDone = FALSE
    /\ conc = NoConc
    /\ sub = NoSub
    /\ svc = NoSvc

\* AddStore appends one store, which holds whatever it held before.
AddStore(store) ==
    /\ last = Idle
    /\ ChainLen < MaxTiers
    /\ chain' = [i \in 0..ChainLen |-> IF i < ChainLen THEN chain[i] ELSE store]
    /\ UNCHANGED <<missingCacheEnabled, missingCache, last, ctxDone, conc, sub, svc>>

\* The caller takes the result of its call and is free to make the next one,
\* with a context of its own.
Return ==
    /\ last # Idle
    /\ last' = Idle
    /\ ctxDone' = FALSE
    /\ UNCHANGED <<chain, missingCacheEnabled, missingCache, conc, sub, svc>>

\* The context of the next call is cancelled: the store calls that fail
\* during that call report the context's error.
Cancel ==
    /\ last = Idle
    /\ ~ctxDone
    /\ ctxDone' = TRUE
    /\ UNCHANGED <<chain, missingCacheEnabled, missingCache, last, conc, sub, svc>>

\* ---- Contains
RECURSIVE ContainsWalk(_, _, _, _)
ContainsWalk(key, failR, i, calls) ==
    IF i > lastElementIndex
    THEN [exists |-> FALSE, err |-> FALSE, calls |-> calls]
    ELSE LET failed == i \in failR
             exists == ~failed /\ TContains(chain[i], key)
             c == Append(calls, TierCall(i, "Contains", <<key>>, failed,
                                         IF exists THEN {key} ELSE {}, EmptyMap))
         IN  IF failed /\ IsFatal(i)
             THEN [exists |-> FALSE, err |-> TRUE, calls |-> c]
             ELSE IF exists
                  THEN [exists |-> TRUE, err |-> FALSE, calls |-> c]
                  ELSE ContainsWalk(key, failR, i + 1, c)

\* The short circuit of Contains and Get: the lookup in the missing value cache.
CacheLookup(key, ncFailR) ==
    IF missingCacheEnabled
    THEN LET exists == ~ncFailR /\ key \in missingCache
         IN  [exists |-> exists,
              calls |-> <<CacheCall("Contains", <<key>>, ncFailR,
                                    IF exists THEN {key} ELSE {}, EmptyMap)>>]
    ELSE [exists |-> FALSE, calls |-> <<>>]

\* A miss that is not remembered.
CacheMissForgotten(key, ncFailW, calls) ==
    [cache |-> missingCache, calls |-> calls]

\* "Cache empty value if no result was found"
CacheMiss(key, ncFailW, calls) ==
    IF missingCacheEnabled
    THEN [cache |-> IF ncFailW THEN missingCache ELSE missingCache \cup {key},
          calls |-> Append(calls, CacheCall("Put", <<key>>, ncFailW, {}, EmptyMap))]
    ELSE [cache |-> missingCache, calls |-> calls]

\* ---- Get
RECURSIVE GetWalk(_, _, _, _)
GetWalk(key, failR, i, calls) ==
    IF i > lastElementIndex
    THEN [exists |-> FALSE, err |-> FALSE, foundInIndex |-> lastElementIndex + 1,
          value |-> EmptyMap, calls |-> calls]
    ELSE LET failed == i \in failR
             exists == ~failed /\ TContains(chain[i], key)
             value == IF exists THEN key :> chain[i][key] ELSE EmptyMap
             c == Append(calls, TierCall(i, "Get", <<key>>, failed,
                                         IF exists THEN {key} ELSE {}, value))
         IN  IF failed /\ IsFatal(i)
             THEN [exists |-> FALSE, err |-> TRUE, foundInIndex |-> lastElementIndex + 1,
                   value |-> EmptyMap, calls |-> c]
             ELSE IF exists
                  THEN [exists |-> TRUE, err |-> FALSE, foundInIndex |-> i,
                        value |-> value, calls |-> c]
                  ELSE GetWalk(key, failR, i + 1, c)

\* "propagate to the lower cache levels": the elements Get writes the value to.
GetBackfillTargets(foundInIndex) == 0..(foundInIndex - 1)

\* A propagation that starts at element 0 and works towards foundInIndex - 1.
GetBackfillCallsAscending(key, value, foundInIndex, failW) ==
    [j \in 1..foundInIndex |->
        TierCall(j - 1, "Put", <<key>>, (j - 1) \in failW, {}, value)]

\* The Put calls of the propagation, from foundInIndex - 1 down to 0.
GetBackfillCalls(key, value, foundInIndex, failW) ==
    [j \in 1..Cardinality(GetBackfillTargets(foundInIndex)) |->
        TierCall(foundInIndex - j, "Put", <<key>>, (foundInIndex - j) \in failW, {}, value)]

\* A Get that returns the value without propagating it.
GetBackfillChainNone(key, value, foundInIndex, failW) == chain

GetBackfillChain(key, value, foundInIndex, failW) ==
    [i \in DOMAIN chain |->
        IF i \in GetBackfillTargets(foundInIndex) /\ i \notin failW
        THEN TPutBatch(chain[i], value)
        ELSE chain[i]]

\* What Get does from the current state: the new chain and cache and the result.
GetOutcome(key, failR, failW, ncFailR, ncFailW) ==
    LET nc == CacheLookup(key, ncFailR)
    IN  IF nc.exists
        THEN [chain |-> chain, cache |-> missingCache,
              res |-> Result("Get", <<key>>, EmptyMap, FALSE, <<>>, FALSE,
                             lastElementIndex + 1, nc.calls)]
        ELSE LET w == GetWalk(key, failR, 0, nc.calls)
             IN  IF w.err
                 THEN [chain |-> chain, cache |-> missingCache,
                       res |-> Result("Get", <<key>>, EmptyMap, FALSE, <<>>, TRUE,
                                      w.foundInIndex, w.calls)]
                 ELSE IF ~w.exists
                 THEN LET m == CacheMiss(key, ncFailW, w.calls)
                      IN  [chain |-> chain, cache |-> m.cache,
                           res |-> Result("Get", <<key>>, EmptyMap, FALSE, <<>>, FALSE,
                                          w.foundInIndex, m.calls)]
                 ELSE [chain |-> GetBackfillChain(key, w.value, w.foundInIndex, failW),
                       cache |-> missingCache,
                       res |-> Result("Get", <<key>>, w.value, TRUE, <<>>, FALSE,
                                      w.foundInIndex,
                                      w.calls \o GetBackfillCalls(key, w.value,
                                                                  w.foundInIndex, failW))]

Get(key, failR, failW, ncFailR, ncFailW) ==
    /\ last = Idle
    /\ LET o == GetOutcome(key, failR, failW, ncFailR, ncFailW)
       IN  /\ chain' = o.chain
           /\ missingCache' = o.cache
           /\ last' = o.res
    /\ UNCHANGED <<missingCacheEnabled, ctxDone, conc, sub, svc>>

\* ---- Contains (the method)
\* A Contains that propagates a hit to the lower cache levels, as Get does.
ContainsBackfill(key, failR, ncFailR, ncFailW) ==
    /\ last = Idle
    /\ LET o == GetOutcome(key, failR, {}, ncFailR, ncFailW)
       IN  /\ chain' = o.chain
           /\ missingCache' = o.cache
           /\ last' = [o.res EXCEPT !.op = "Contains", !.values = EmptyMap]
    /\ UNCHANGED <<missingCacheEnabled, ctxDone, conc, sub, svc>>

\* A Contains that stores the empty value whenever it has not seen the key,
\* the last element's error included.
ContainsMissOnError(key, failR, ncFailR, ncFailW) ==
    /\ last = Idle
    /\ LET nc == CacheLookup(key, ncFailR)
           w == ContainsWalk(key, failR, 0, nc.calls)
           m == CacheMiss(key, ncFailW, w.calls)
       IN  IF nc.exists \/ w.exists
           THEN /\ last' = Result("Contains", <<key>>, EmptyMap, ~nc.exists, <<>>, FALSE,
                                  lastElementIndex + 1,
                                  IF nc.exists THEN nc.calls ELSE w.calls)
                /\ UNCHANGED missingCache
           ELSE /\ missingCache' = m.cache
                /\ last' = Result("Contains", <<key>>, EmptyMap, FALSE, <<>>, w.err,
                                  lastElementIndex + 1, m.calls)
    /\ UNCHANGED <<chain, missingCacheEnabled, ctxDone, conc, sub, svc>>

Contains(key, failR, ncFailR, ncFailW) ==
    /\ last = Idle
    /\ LET nc == CacheLookup(key, ncFailR)
       IN  IF nc.exists
           THEN /\ last' = Result("Contains", <<key>>, EmptyMap, FALSE, <<>>, FALSE,
                                  lastElementIndex + 1, nc.calls)
                /\ UNCHANGED <<chain, missingCache>>
           ELSE LET w == ContainsWalk(key, failR, 0, nc.calls)
                IN  IF w.err \/ w.exists
                    THEN /\ last' = Result("Contains", <<key>>, EmptyMap, w.exists, <<>>,
                                           w.err, lastElementIndex + 1, w.calls)
                         /\ UNCHANGED <<chain, missingCache>>
                    ELSE LET m == CacheMiss(key, ncFailW, w.calls)
                         IN  /\ missingCache' = m.cache
                             /\ last' = Result("Contains", <<key>>, EmptyMap, FALSE, <<>>,
                                               FALSE, lastElementIndex + 1, m.calls)
                             /\ UNCHANGED chain
    /\ UNCHANGED <<missingCacheEnabled, ctxDone, conc, sub, svc>>

\* ---- Put
RECURSIVE PutWalk(_, _, _, _, _, _)
PutWalk(op, keys, values, failW, i, acc) ==
    IF i > lastElementIndex
    THEN acc
    ELSE LET failed == i \in failW
             c == Append(acc.calls, TierCall(i, op, keys, failed, {}, values))
             ch == IF failed THEN acc.chain
                   ELSE [acc.chain EXCEPT ![i] = TPutBatch(acc.chain[i], values)]
         IN  IF failed /\ IsFatal(i)
             THEN [chain |-> ch, err |-> TRUE, calls |-> c]
             ELSE PutWalk(op, keys, values, failW, i + 1, [chain |-> ch, err |-> FALSE, calls |-> c])

\* The Delete calls to the missing value cache, one per key in the given order.
CacheDeleteCalls(order, ncFailDel) ==
    [j \in DOMAIN order |->
        CacheCall("Delete", <<order[j]>>, order[j] \in ncFailDel, {}, EmptyMap)]

\* "remove the value from the missing value cache only after we persisted it"
CacheInvalidate(keys, ncFailDel) ==
    IF missingCacheEnabled THEN missingCache \ (keys \ ncFailDel) ELSE missingCache

\* A Put that erases the cached empty value before it writes the stores.
PutInvalidateFirst(key, value, failW, ncFailDel) ==
    /\ last = Idle
    /\ LET w == PutWalk("Put", <<key>>, key :> value, failW, 0,
                        [chain |-> chain, err |-> FALSE, calls |-> <<>>])
       IN  /\ chain' = w.chain
           /\ missingCache' = CacheInvalidate({key}, ncFailDel)
           /\ last' = Result("Put", <<key>>, key :> value, FALSE, <<>>, w.err,
                             lastElementIndex + 1,
                             (IF missingCacheEnabled
                              THEN CacheDeleteCalls(<<key>>, ncFailDel)
                              ELSE <<>>) \o w.calls)
    /\ UNCHANGED <<missingCacheEnabled, ctxDone, conc, sub, svc>>

Put(key, value, failW, ncFailDel) ==
    /\ last = Idle
    /\ LET w == PutWalk("Put", <<key>>, key :> value, failW, 0,
                        [chain |-> chain, err |-> FALSE, calls |-> <<>>])
       IN  /\ chain' = w.chain
           /\ IF w.err
              THEN /\ last' = Result("Put", <<key>>, key :> value, FALSE, <<>>, TRUE,
                                     lastElementIndex + 1, w.calls)
                   /\ UNCHANGED missingCache
              ELSE /\ missingCache' = CacheInvalidate({key}, ncFailDel)
                   /\ last' = Result("Put", <<key>>, key :> value, FALSE, <<>>, FALSE,
                                     lastElementIndex + 1,
                                     w.calls \o (IF missingCacheEnabled
                                                 THEN CacheDeleteCalls(<<key>>, ncFailDel)
                                                 ELSE <<>>))
    /\ UNCHANGED <<missingCacheEnabled, ctxDone, conc, sub, svc>>

\* ---- PutBatch
PutBatch(values, order, valuesOk, failW, ncFailDel) ==
    /\ last = Idle
    /\ order \in Orders(DOMAIN values)
    /\ LET w == PutWalk("PutBatch", order, values, TierFailures(valuesOk, failW), 0,
                        [chain |-> chain, err |-> FALSE, calls |-> <<>>])
           res(err, calls) ==
               [Result("PutBatch", order, values, FALSE, <<>>, err,
                       lastElementIndex + 1, calls) EXCEPT !.valuesOk = valuesOk]
       IN  /\ chain' = w.chain
           /\ IF w.err
              THEN /\ last' = res(TRUE, w.calls)
                   /\ UNCHANGED missingCache
              ELSE IF missingCacheEnabled /\ ~valuesOk
                   THEN \* "can not cast values from %T to map[interface{}]interface{}"
                        /\ last' = [res(TRUE, w.calls) EXCEPT !.cause = "coercion"]
                        /\ UNCHANGED missingCache
                   ELSE /\ missingCache' = CacheInvalidate(DOMAIN values, ncFailDel)
                        /\ last' = res(FALSE,
                                       w.calls \o (IF missingCacheEnabled
                                                   THEN CacheDeleteCalls(order, ncFailDel)
                                                   ELSE <<>>))
    /\ UNCHANGED <<missingCacheEnabled, ctxDone, conc, sub, svc>>

\* ---- GetBatch
\* The lookup of the keys in the missing value cache: the keys left to do and
\* the keys of cachedMissingMap.
CacheGetBatch(keys, ncFailR) ==
    IF missingCacheEnabled
    THEN [todo |-> IF ncFailR THEN TErrMissing
                   ELSE SelectSeq(keys, LAMBDA k : k \notin missingCache),
          cached |-> IF ncFailR THEN {} ELSE Range(keys) \cap missingCache,
          calls |-> <<CacheCall("GetBatch", keys, ncFailR,
                                IF ncFailR THEN {} ELSE Range(keys) \cap missingCache,
                                EmptyMap)>>]
    ELSE [todo |-> keys, cached |-> {}, calls |-> <<>>]

RECURSIVE GetBatchWalk(_, _, _, _)
GetBatchWalk(todo, failR, i, acc) ==
    IF i > lastElementIndex
    THEN [acc EXCEPT !.todo = todo, !.foundInIndex = lastElementIndex + 1]
    ELSE LET failed == i \in failR
             returned == IF failed THEN TErrMissing ELSE TGetBatchMissing(chain[i], todo)
             values == IF failed THEN acc.values
                       ELSE TGetBatchValues(chain[i], todo, acc.values)
             c == Append(acc.calls,
                         TierCall(i, "GetBatch", todo, failed,
                                  IF failed THEN {} ELSE Range(todo) \cap DOMAIN chain[i],
                                  EmptyMap))
         IN  IF failed /\ IsFatal(i)
             THEN [acc EXCEPT !.err = TRUE, !.todo = todo, !.calls = c]
             ELSE LET refill_i == IF failed THEN todo ELSE returned
                      next == [acc EXCEPT !.values = values, !.calls = c,
                                          !.refill = (i :> refill_i) @@ acc.refill,
                                          !.todo = refill_i, !.foundInIndex = i]
                  IN  IF Len(refill_i) = 0
                      THEN next
                      ELSE GetBatchWalk(refill_i, failR, i + 1, next)

\* Everything found so far, whether or not element i had it.
missingInElementAll(refill_i, mii) == mii

\* The keys of refill[i] that have a value in the result map.
missingInElement(refill_i, mii) ==
    [k \in Range(refill_i) \cap DOMAIN mii |-> mii[k]]

\* A propagation loop that stops before element 0 (i > 0 for i >= 0).
GetBatchBackfillTargetsAboveZero(refill, mii, foundInIndex) ==
    {i \in 1..(foundInIndex - 1) :
        /\ Len(refill[i]) # 0
        /\ DOMAIN [k \in Range(refill[i]) \cap DOMAIN mii |-> mii[k]] # {}}

\* "propagate to the lower cache levels": the elements GetBatch calls PutBatch on.
GetBatchBackfillTargets(refill, mii, foundInIndex) ==
    {i \in 0..(foundInIndex - 1) :
        /\ Len(refill[i]) # 0
        /\ DOMAIN missingInElement(refill[i], mii) # {}}

RECURSIVE GetBatchBackfillCalls(_, _, _, _)
GetBatchBackfillCalls(refill, mii, i, failW) ==
    IF i < 0
    THEN <<>>
    ELSE (IF i \in GetBatchBackfillTargets(refill, mii, i + 1)
          THEN <<TierCall(i, "PutBatch", refill[i], i \in failW, {},
                          missingInElement(refill[i], mii))>>
          ELSE <<>>)
         \o GetBatchBackfillCalls(refill, mii, i - 1, failW)

GetBatchBackfillChain(refill, mii, foundInIndex, failW) ==
    [i \in DOMAIN chain |->
        IF i \in GetBatchBackfillTargets(refill, mii, foundInIndex) /\ i \notin failW
        THEN TPutBatch(chain[i], missingInElement(refill[i], mii))
        ELSE chain[i]]

\* "store missing keys if enabled"
CacheMissBatch(todo, ncFailW) ==
    IF missingCacheEnabled /\ Len(todo) > 0
    THEN [cache |-> IF ncFailW THEN missingCache ELSE missingCache \cup Range(todo),
          calls |-> <<CacheCall("PutBatch", todo, ncFailW, {}, EmptyMap)>>]
    ELSE [cache |-> missingCache, calls |-> <<>>]

GetBatch(keys, cachedMissing, keysOk, valuesOk, failR, failW, ncFailR, ncFailW) ==
    /\ last = Idle
    /\ IF ~keysOk
       THEN \* "can not morph keys to slice of interfaces"
            /\ cachedMissing = <<>>
            /\ last' = [Result("GetBatch", keys, EmptyMap, FALSE, <<>>, TRUE,
                               lastElementIndex + 1, <<>>)
                        EXCEPT !.keysOk = FALSE, !.valuesOk = valuesOk,
                               !.cause = "coercion"]
            /\ UNCHANGED <<chain, missingCache>>
       ELSE
       LET nc == CacheGetBatch(keys, ncFailR)
           res(values, missing, err, foundInIndex, calls) ==
               [Result("GetBatch", keys, values, FALSE, missing, err, foundInIndex,
                       calls) EXCEPT !.valuesOk = valuesOk]
       IN  /\ cachedMissing \in Orders(nc.cached)
           /\ IF Len(nc.todo) = 0
              THEN /\ last' = res(EmptyMap, cachedMissing, FALSE,
                                  lastElementIndex + 1, nc.calls)
                   /\ UNCHANGED <<chain, missingCache>>
              ELSE LET w == GetBatchWalk(nc.todo, TierFailures(valuesOk, failR), 0,
                                [todo |-> nc.todo, values |-> EmptyMap,
                                 refill |-> <<>>, err |-> FALSE,
                                 foundInIndex |-> lastElementIndex + 1,
                                 calls |-> nc.calls])
                   IN  IF w.err
                       THEN /\ last' = res(w.values, <<>>, TRUE, w.foundInIndex, w.calls)
                            /\ UNCHANGED <<chain, missingCache>>
                       ELSE IF ~valuesOk
                       THEN \* "can not cast result values from %T to
                            \* map[interface{}]interface{}"
                            /\ last' = [res(w.values, <<>>, TRUE, w.foundInIndex,
                                            w.calls) EXCEPT !.cause = "coercion"]
                            /\ UNCHANGED <<chain, missingCache>>
                       ELSE LET m == CacheMissBatch(w.todo, ncFailW)
                            IN  /\ chain' = GetBatchBackfillChain(w.refill, w.values,
                                                                  w.foundInIndex, failW)
                                /\ missingCache' = m.cache
                                /\ last' = res(w.values, w.todo \o cachedMissing, FALSE,
                                               w.foundInIndex,
                                               w.calls
                                               \o GetBatchBackfillCalls(w.refill, w.values,
                                                      w.foundInIndex - 1, failW)
                                               \o m.calls)
    /\ UNCHANGED <<missingCacheEnabled, ctxDone, conc, sub, svc>>

\* The caller makes its calls one after the other (last = Idle between two).
Next ==
    \/ \E store \in Maps : AddStore(store)
    \/ Return
    \/ /\ last = Idle
       /\ \E key \in Keys, failR \in SUBSET DOMAIN chain,
             ncFailR \in BOOLEAN, ncFailW \in BOOLEAN :
             Contains(key, failR, ncFailR, ncFailW)
    \/ /\ last = Idle
       /\ \E key \in Keys, failR \in SUBSET DOMAIN chain, failW \in SUBSET DOMAIN chain,
             ncFailR \in BOOLEAN, ncFailW \in BOOLEAN :
             Get(key, failR, failW, ncFailR, ncFailW)
    \/ /\ last = Idle
       /\ \E key \in Keys, value \in Values, failW \in SUBSET DOMAIN chain,
             ncFailDel \in SUBSET Keys :
             Put(key, value, failW, ncFailDel)
    \/ /\ last = Idle
       /\ \E values \in Maps, valuesOk \in BOOLEAN, failW \in SUBSET DOMAIN chain,
             ncFailDel \in SUBSET Keys :
             \* nothing of a payload that cannot be morphed is looked at
             /\ valuesOk \/ (values = EmptyMap /\ failW = {} /\ ncFailDel = {})
             /\ \E order \in Orders(DOMAIN values) :
                   PutBatch(values, order, valuesOk, failW, ncFailDel)
    \/ /\ last = Idle
       /\ \E keys \in KeySeqs, failR \in SUBSET DOMAIN chain, failW \in SUBSET DOMAIN chain,
             ncFailR \in BOOLEAN, ncFailW \in BOOLEAN,
             keysOk \in BOOLEAN, valuesOk \in BOOLEAN :
             \* nothing of a payload that cannot be morphed is looked at, and
             \* no call that could fail follows the rejection of the values
             /\ keysOk \/ (keys = <<>> /\ valuesOk /\ ~ncFailR)
             /\ (keysOk /\ valuesOk) \/ (failR = {} /\ failW = {} /\ ~ncFailW)
             /\ \E cachedMissing \in Orders(IF keysOk
                                             THEN CacheGetBatch(keys, ncFailR).cached
                                             ELSE {}) :
                   GetBatch(keys, cachedMissing, keysOk, valuesOk, failR, failW,
                            ncFailR, ncFailW)

Spec == Init /\ [][Next]_vars

\* A chain of DeepTiers stores, as NewChainKvStore and Add have built it, and
\* the same caller.  The order of the calls and the return paths do not depend
\* on the values stored: one value is enough.
DeepValues == {1}

DeepStores == UNION {[D -> DeepValues] : D \in SUBSET Keys}

InitDeep ==
    /\ chain \in [0..(DeepTiers - 1) -> DeepStores]
    /\ missingCacheEnabled \in BOOLEAN
    /\ missingCache = {}
    /\ last = Idle
    /\ ctxDone = FALSE
    /\ conc = NoConc
    /\ sub = NoSub
    /\ svc = NoSvc

NextDeep ==
    \/ Return
    \/ /\ last = Idle
       /\ \E key \in Keys, failR \in SUBSET DOMAIN chain,
             ncFailR \in BOOLEAN, ncFailW \in BOOLEAN :
             Contains(key, failR, ncFailR, ncFailW)
    \/ /\ last = Idle
       /\ \E key \in Keys, failR \in SUBSET DOMAIN chain, failW \in SUBSET DOMAIN chain,
             ncFailR \in BOOLEAN, ncFailW \in BOOLEAN :
             Get(key, failR, failW, ncFailR, ncFailW)
    \/ /\ last = Idle
       /\ \E key \in Keys, value \in DeepValues, failW \in SUBSET DOMAIN chain,
             ncFailDel \in SUBSET Keys :
             Put(key, value, failW, ncFailDel)
    \/ /\ last = Idle
       /\ \E values \in DeepStores, valuesOk \in BOOLEAN, failW \in SUBSET DOMAIN chain,
             ncFailDel \in SUBSET Keys :
             /\ valuesOk \/ (values = EmptyMap /\ failW = {} /\ ncFailDel = {})
             /\ \E order \in Orders(DOMAIN values) :
                   PutBatch(values, order, valuesOk, failW, ncFailDel)
    \/ /\ last = Idle
       /\ \E keys \in KeySeqs, failR \in SUBSET DOMAIN chain, failW \in SUBSET DOMAIN chain,
             ncFailR \in BOOLEAN, ncFailW \in BOOLEAN,
             keysOk \in BOOLEAN, valuesOk \in BOOLEAN :
             /\ keysOk \/ (keys = <<>> /\ valuesOk /\ ~ncFailR)
             /\ (keysOk /\ valuesOk) \/ (failR = {} /\ failW = {} /\ ~ncFailW)
             /\ \E cachedMissing \in Orders(IF keysOk
                                             THEN CacheGetBatch(keys, ncFailR).cached
                                             ELSE {}) :
                   GetBatch(keys, cachedMissing, keysOk, valuesOk, failR, failW,
                            ncFailR, ncFailW)

SpecDeep == InitDeep /\ [][NextDeep]_vars

\* ------------------------------------------------ two concurrent callers
\* A Get or Contains of conc.key and a Put of the same key run at the same
\* time on a chain of ConcTiers stores.  The engine takes no lock: the calls
\* to the stores and to the missing value cache are the steps, and they
\* interleave in any order.
ConcStores(key) == UNION {[D -> Values] : D \in SUBSET {key}}

InitConc ==
    /\ chain \in UNION {[0..(ConcTiers - 1) -> ConcStores(key)] : key \in Keys}
    /\ missingCacheEnabled \in BOOLEAN
    /\ missingCache = {}
    /\ last = Idle
    /\ ctxDone = FALSE
    /\ \E key \in Keys, op \in {"Get", "Contains"}, value \in Values :
          /\ \A i \in DOMAIN chain : DOMAIN chain[i] \subseteq {key}
          /\ conc = Callers(key, Reader(op, "lookup"), Writer(value, "write"))
    /\ sub = NoSub
    /\ svc = NoSvc

\* "check if we can short circuit the whole deal"
RLookup(ncFail) ==
    /\ conc.r.pc = "lookup"
    /\ ncFail => missingCacheEnabled
    /\ LET exists == missingCacheEnabled /\ ~ncFail /\ conc.key \in missingCache
       IN  conc' = [conc EXCEPT !.r.pc = IF exists THEN "done" ELSE "walk",
                                !.failed = @ \/ ncFail]
    /\ UNCHANGED <<chain, missingCacheEnabled, missingCache, last, ctxDone, sub, svc>>

\* A propagation that starts at the element the value was found in.
BackfillFromFound(foundInIndex) == foundInIndex

\* "for i := foundInIndex - 1; i >= 0; i--"
BackfillFrom(foundInIndex) == foundInIndex - 1

\* element.Get / element.Contains of the loop over s.chain
RWalk(fail) ==
    /\ conc.r.pc = "walk"
    /\ LET i == conc.r.i
           exists == ~fail /\ TContains(chain[i], conc.key)
       IN  conc' =
             IF fail /\ IsFatal(i)
             THEN [conc EXCEPT !.r.pc = "done", !.r.err = TRUE, !.failed = TRUE]
             ELSE IF exists
             THEN IF conc.r.op = "Contains"
                  THEN [conc EXCEPT !.r.pc = "done", !.r.exists = TRUE]
                  ELSE [conc EXCEPT !.r.exists = TRUE,
                                    !.r.value = conc.key :> chain[i][conc.key],
                                    !.r.foundInIndex = i,
                                    !.r.i = BackfillFrom(i),
                                    !.r.pc = IF BackfillFrom(i) >= 0
                                             THEN "backfill" ELSE "done"]
             ELSE IF i = lastElementIndex
             THEN [conc EXCEPT !.r.pc = IF missingCacheEnabled THEN "miss" ELSE "done",
                               !.failed = @ \/ fail]
             ELSE [conc EXCEPT !.r.i = i + 1, !.failed = @ \/ fail]
    /\ UNCHANGED <<chain, missingCacheEnabled, missingCache, last, ctxDone, sub, svc>>

\* "Cache empty value if no result was found"
RMiss(ncFail) ==
    /\ conc.r.pc = "miss"
    /\ missingCache' = IF ncFail THEN missingCache ELSE missingCache \cup {conc.key}
    /\ conc' = [conc EXCEPT !.r.pc = "done", !.r.wPcAtMiss = conc.w.pc,
                            !.failed = @ \/ ncFail]
    /\ UNCHANGED <<chain, missingCacheEnabled, last, ctxDone, sub, svc>>

\* "propagate to the lower cache levels"
RBackfill(fail) ==
    /\ conc.r.pc = "backfill"
    /\ LET i == conc.r.i
       IN  /\ chain' = IF fail THEN chain
                       ELSE [chain EXCEPT ![i] = TPutBatch(chain[i], conc.r.value)]
           /\ conc' = [conc EXCEPT !.r.i = i - 1,
                                   !.r.pc = IF i - 1 >= 0 THEN "backfill" ELSE "done",
                                   !.failed = @ \/ fail]
    /\ UNCHANGED <<missingCacheEnabled, missingCache, last, ctxDone, sub, svc>>

\* s.chain[i].Put of the loop of Put
WWrite(fail) ==
    /\ conc.w.pc = "write"
    /\ LET i == conc.w.i
       IN  /\ chain' = IF fail THEN chain
                       ELSE [chain EXCEPT
                               ![i] = TPutBatch(chain[i], conc.key :> conc.w.value)]
           /\ conc' =
                 IF fail /\ IsFatal(i)
                 THEN [conc EXCEPT !.w.pc = "done", !.w.err = TRUE, !.failed = TRUE]
                 ELSE IF i = lastElementIndex
                 THEN [conc EXCEPT !.w.pc = IF missingCacheEnabled
                                            THEN "delete" ELSE "done",
                                   !.failed = @ \/ fail]
                 ELSE [conc EXCEPT !.w.i = i + 1, !.failed = @ \/ fail]
    /\ UNCHANGED <<missingCacheEnabled, missingCache, last, ctxDone, sub, svc>>

\* A Put that leaves the missing value cache as it is.
WDeleteNothing(ncFail) ==
    /\ conc.w.pc = "delete"
    /\ conc' = [conc EXCEPT !.w.pc = "done", !.failed = @ \/ ncFail]
    /\ UNCHANGED <<chain, missingCacheEnabled, missingCache, last, ctxDone, sub, svc>>

\* "remove the value from the missing value cache only after we persisted it"
WDelete(ncFail) ==
    /\ conc.w.pc = "delete"
    /\ missingCache' = IF ncFail THEN missingCache ELSE missingCache \ {conc.key}
    /\ conc' = [conc EXCEPT !.w.pc = "done", !.failed = @ \/ ncFail]
    /\ UNCHANGED <<chain, missingCacheEnabled, last, ctxDone, sub, svc>>

NextConc ==
    \/ \E ncFail \in BOOLEAN : RLookup(ncFail)
    \/ \E fail \in BOOLEAN : RWalk(fail)
    \/ \E ncFail \in BOOLEAN : RMiss(ncFail)
    \/ \E fail \in BOOLEAN : RBackfill(fail)
    \/ \E fail \in BOOLEAN : WWrite(fail)
    \/ \E ncFail \in BOOLEAN : WDelete(ncFail)

SpecConc == InitConc /\ [][NextConc]_vars

\* ------------------------------------------------- SubscriberCallback
\* NewSubscriberCallback(transformers, outputs)
InitConsume ==
    /\ chain = <<>>
    /\ missingCacheEnabled = FALSE
    /\ missingCache = {}
    /\ last = Idle
    /\ ctxDone = FALSE
    /\ conc = NoConc
    /\ \E transformers \in Registrations, outputs \in Registrations :
          sub = Subscriber(transformers, outputs, NoOutcome)
    /\ svc = NoSvc

\* getTransformer: whether it returns an error.
getTransformerErr(modelId, version) ==
    \/ ~\E v \in Versions : <<modelId, v>> \in sub.transformers
    \/ <<modelId, version>> \notin sub.transformers

\* getOutput: whether it returns an error; both of its checks look at
\* s.transformers.
getOutputErr(modelId, version) ==
    \/ ~\E v \in Versions : <<modelId, v>> \in sub.transformers
    \/ <<modelId, version>> \notin sub.transformers

\* getOutput: whether the Output it returns with a nil error is nil, the zero
\* value of an index into a map that has no such entry.
getOutputNil(modelId, version) == <<modelId, version>> \notin sub.outputs

\* Consume.  specOk: getModelSpecification reads the attributes; transformed:
\* what transformer.Transform returns ("error", "nil" or "model"); persistErr:
\* whether output.Persist returns an error.
Consume(specOk, modelId, version, transformed, persistErr) ==
    /\ sub' = [sub EXCEPT !.res =
          IF ~specOk
          THEN Outcome(TRUE, modelId, version, "none", FALSE, TRUE, FALSE, FALSE)
          ELSE IF getTransformerErr(modelId, version)
          THEN Outcome(TRUE, modelId, version, "none", FALSE, TRUE, FALSE, FALSE)
          ELSE IF transformed = "error"
          THEN Outcome(TRUE, modelId, version, transformed, FALSE, TRUE, FALSE, FALSE)
          ELSE IF transformed = "nil"
          THEN Outcome(TRUE, modelId, version, transformed, TRUE, FALSE, FALSE, FALSE)
          ELSE IF getOutputErr(modelId, version)
          THEN Outcome(TRUE, modelId, version, transformed, FALSE, TRUE, FALSE, FALSE)
          ELSE IF getOutputNil(modelId, version)
          THEN \* output.Persist on a nil Output: nil pointer dereference
               Outcome(TRUE, modelId, version, transformed, FALSE, FALSE, FALSE, TRUE)
          ELSE Outcome(TRUE, modelId, version, transformed, ~persistErr, persistErr,
                       TRUE, FALSE)]
    /\ UNCHANGED <<chain, missingCacheEnabled, missingCache, last, ctxDone, conc, svc>>

NextConsume ==
    \E specOk \in BOOLEAN, modelId \in ModelIds, version \in Versions,
       transformed \in {"error", "nil", "model"}, persistErr \in BOOLEAN :
       Consume(specOk, modelId, version, transformed, persistErr)

SpecConsume == InitConsume /\ [][NextConsume]_vars

\* ------------------------------------------------------- sqs service
\* NewServiceWithInterfaces: a zero sync.Mutex, no queue yet.
InitSqs ==
    /\ chain = <<>>
    /\ missingCacheEnabled = FALSE
    /\ missingCache = {}
    /\ last = Idle
    /\ ctxDone = FALSE
    /\ conc = NoConc
    /\ sub = NoSub
    /\ \E autoCreate \in BOOLEAN :
          svc = Service(FALSE, autoCreate, {}, [g \in Goroutines |-> NotCalling])

SqsFrame == UNCHANGED <<chain, missingCacheEnabled, missingCache, last, ctxDone, conc, sub>>

\* The call svc.CreateQueue(input) through the *service: "func (s service)"
\* copies the service, its mutex included, into the receiver.
CallCreateQueue(g, name, redrive) ==
    /\ svc.calls[g].pc = "idle"
    /\ svc' = [svc EXCEPT !.calls[g] = Call("lock", svc.lck, name, redrive, FALSE, FALSE)]
    /\ SqsFrame

\* s.lck.Lock(): s is the receiver, so this is the mutex of the copy.
Lock(g) ==
    /\ svc.calls[g].pc = "lock"
    /\ ~svc.calls[g].lck
    /\ svc' = [svc EXCEPT !.calls[g].lck = TRUE, !.calls[g].pc = "exists"]
    /\ SqsFrame

\* The return of CreateQueue with the deferred s.lck.Unlock().
Returned(c, ok) == [c EXCEPT !.pc = "done", !.lck = FALSE, !.ok = ok, !.err = ~ok]

\* s.QueueExists, then GetProperties or the AutoCreate check.
QueueExists(g, fail) ==
    /\ svc.calls[g].pc = "exists"
    /\ LET c == svc.calls[g]
           exists == Queue(c.name) \in svc.queues
       IN  svc' = [svc EXCEPT !.calls[g] =
                      IF fail THEN Returned(c, FALSE)
                      ELSE IF exists THEN Returned(c, TRUE)
                      ELSE IF ~svc.autoCreate THEN Returned(c, FALSE)
                      ELSE [c EXCEPT !.pc = "deadLetter"]]
    /\ SqsFrame

\* s.createDeadLetterQueue
CreateDeadLetterQueue(g, fail) ==
    /\ svc.calls[g].pc = "deadLetter"
    /\ LET c == svc.calls[g]
       IN  IF ~c.redrive
           THEN /\ ~fail
                /\ svc' = [svc EXCEPT !.calls[g].pc = "create"]
           ELSE IF fail
           THEN svc' = [svc EXCEPT !.calls[g] = Returned(c, FALSE)]
           ELSE svc' = [svc EXCEPT !.queues = @ \cup {DeadLetterQueue(c.name)},
                                   !.calls[g].pc = "create"]
    /\ SqsFrame

\* s.doCreateQueue(sqsInput)
DoCreateQueue(g, fail) ==
    /\ svc.calls[g].pc = "create"
    /\ LET c == svc.calls[g]
       IN  IF fail
           THEN svc' = [svc EXCEPT !.calls[g] = Returned(c, FALSE)]
           ELSE svc' = [svc EXCEPT !.queues = @ \cup {Queue(c.name)},
                                   !.calls[g].pc = "attributes"]
    /\ SqsFrame

\* s.client.SetQueueAttributes and "return props, err"
SetQueueAttributes(g, fail) ==
    /\ svc.calls[g].pc = "attributes"
    /\ svc' = [svc EXCEPT !.calls[g] = Returned(svc.calls[g], ~fail)]
    /\ SqsFrame

\* The goroutine takes the result and may call again.
CallReturn(g) ==
    /\ svc.calls[g].pc = "done"
    /\ svc' = [svc EXCEPT !.calls[g] = NotCalling]
    /\ SqsFrame

NextSqs ==
    \/ \E g \in Goroutines, name \in QueueNames, redrive \in BOOLEAN :
          CallCreateQueue(g, name, redrive)
    \/ \E g \in Goroutines : Lock(g)
    \/ \E g \in Goroutines, fail \in BOOLEAN : QueueExists(g, fail)
    \/ \E g \in Goroutines, fail \in BOOLEAN : CreateDeadLetterQueue(g, fail)
    \/ \E g \in Goroutines, fail \in BOOLEAN : DoCreateQueue(g, fail)
    \/ \E g \in Goroutines, fail \in BOOLEAN : SetQueueAttributes(g, fail)
    \/ \E g \in Goroutines : CallReturn(g)

SpecSqs == InitSqs /\ [][NextSqs]_vars

\* The same caller with contexts that may be cancelled.
NextCancel ==
    \/ Next
    \/ Cancel

SpecCancel == Init /\ [][NextCancel]_vars

\* ================================================================ claims
CallsOf(r) == Range(r.calls)
TierCallsOf(r) == {c \in CallsOf(r) : ~c.cache}
CacheCallsOf(r) == {c \in CallsOf(r) : c.cache}
ReadOps == {"Contains", "Get", "GetBatch"}

\* C1: after a Put(K, V) that returned nil on a chain of length >= 1, a Get(K)
\* through an engine whose missing value cache is empty, with no failing store,
\* returns (true, V).
C1_PutThenGet ==
    (last.op = "Put" /\ ~last.err /\ ChainLen >= 1 /\ missingCache = {}) =>
        \A failW \in SUBSET DOMAIN chain :
            LET o == GetOutcome(last.keys[1], {}, failW, FALSE, FALSE)
            IN  o.res.exists /\ ~o.res.err /\ o.res.values = last.values

\* C2 (as stated): when Get finds K at index k and returns (true, nil), every
\* element i < k holds K with the value read from element k.
C2_BackfillAll ==
    (last.op = "Get" /\ last.exists /\ ~last.err) =>
        \A i \in 0..(last.foundInIndex - 1) :
            /\ last.keys[1] \in DOMAIN chain[i]
            /\ chain[i][last.keys[1]] = last.values[last.keys[1]]

\* C2 (amended): when Get finds K at index k and returns (true, nil), it has
\* called Put(K, value read) on every element i < k, and every such element
\* whose Put returned no error holds K with the value read from element k.
C2_BackfillWhereWritten ==
    (last.op = "Get" /\ last.exists /\ ~last.err) =>
        \A i \in 0..(last.foundInIndex - 1) :
            /\ \E c \in TierCallsOf(last) :
                  c.i = i /\ c.op = "Put" /\ c.vals = last.values
            /\ (\A c \in TierCallsOf(last) : (c.i = i /\ c.op = "Put") => ~c.err) =>
                  /\ last.keys[1] \in DOMAIN chain[i]
                  /\ chain[i][last.keys[1]] = last.values[last.keys[1]]

C2_Witness ==
    /\ last.op = "Get" /\ last.exists /\ last.foundInIndex >= 1
    /\ \E c \in TierCallsOf(last) : c.op = "Put" /\ c.i = 0 /\ ~c.err
    /\ \E c \in TierCallsOf(last) : c.op = "Get" /\ c.i = 0 /\ ~c.err

\* C3: with the missing value cache enabled, after a Put or PutBatch that
\* returned nil the cache holds none of the written keys.
C3_PutInvalidates ==
    (last.op \in {"Put", "PutBatch"} /\ ~last.err /\ missingCacheEnabled /\ ChainLen >= 1) =>
        DOMAIN last.values \cap missingCache = {}

\* C4: when the keys and values are well formed and no call to the last
\* element of the chain returns an error, the operation returns a nil error,
\* whatever the other elements and the missing value cache return.
C4_NonTerminalTolerated ==
    (last.op # "none" /\ last.keysOk /\ last.valuesOk
        /\ \A c \in TierCallsOf(last) : c.i = lastElementIndex => ~c.err) =>
        ~last.err

C4_Witness ==
    /\ last.op = "GetBatch" /\ ~last.err
    /\ \E c \in TierCallsOf(last) : c.i < lastElementIndex /\ c.err
    /\ \E c \in CacheCallsOf(last) : c.err
    /\ \E c \in TierCallsOf(last) : c.i = lastElementIndex /\ ~c.err

C6_GetBatchPartition ==
    (last.op = "GetBatch" /\ ~last.err /\ ChainLen >= 1) =>
        /\ Range(last.missing) \subseteq Range(last.keys)
        /\ \A k \in Range(last.keys) \ Range(last.missing) : k \in DOMAIN last.values

\* C7: in Get and GetBatch, a Put or PutBatch to element i writes no key that
\* element i reported present in this call; in GetBatch the keys written to
\* element i are keys the engine sent to it and did not get back as present.
C7_BackfillOnlyMissing ==
    (last.op \in {"Get", "GetBatch"}) =>
        \A w \in TierCallsOf(last) :
            w.op \in {"Put", "PutBatch"} =>
                /\ \A r \in TierCallsOf(last) :
                      (r.i = w.i /\ r.op \in ReadOps) => DOMAIN w.vals \cap r.present = {}
                /\ \E r \in TierCallsOf(last) :
                      /\ r.i = w.i /\ r.op \in ReadOps
                      /\ DOMAIN w.vals \subseteq Range(r.keys) \ r.present

C7_Witness ==
    /\ last.op = "GetBatch"
    /\ \E w \in TierCallsOf(last), r \in TierCallsOf(last) :
          /\ w.op = "PutBatch" /\ r.op = "GetBatch" /\ r.i = w.i
          /\ r.present # {} /\ DOMAIN w.vals # {}

\* The index of the element that found key k in the GetBatch of record r
\* (the chain length when no element did).
FoundAt(r, k) ==
    LET hits == {c.i : c \in {c \in TierCallsOf(r) : c.op = "GetBatch" /\ k \in c.present}}
    IN  IF hits = {} THEN ChainLen ELSE CHOOSE i \in hits : \A j \in hits : i <= j

\* C8 (as stated): after a GetBatch that returns a nil error, every requested
\* key found at element k is present at every element j < k.
C8_BatchBackfillAll ==
    (last.op = "GetBatch" /\ ~last.err) =>
        \A k \in Range(last.keys) :
            FoundAt(last, k) < ChainLen =>
                \A j \in 0..(FoundAt(last, k) - 1) : k \in DOMAIN chain[j]

\* C8 (amended): after a GetBatch that returns a nil error, for every requested
\* key found at element k and every j < k the engine has called PutBatch on
\* element j with that key and its value, and the key is present with that
\* value at every such element whose PutBatch returned no error.
C8_BatchBackfillWhereWritten ==
    (last.op = "GetBatch" /\ ~last.err) =>
        \A k \in Range(last.keys) :
            FoundAt(last, k) < ChainLen =>
                \A j \in 0..(FoundAt(last, k) - 1) :
                    /\ \E w \in TierCallsOf(last) :
                          /\ w.i = j /\ w.op = "PutBatch"
                          /\ k \in DOMAIN w.vals /\ w.vals[k] = last.values[k]
                    /\ (\A w \in TierCallsOf(last) :
                           (w.i = j /\ w.op = "PutBatch") => ~w.err) =>
                          (k \in DOMAIN chain[j] /\ chain[j][k] = last.values[k])

C8_Witness ==
    /\ last.op = "GetBatch" /\ ~last.err
    /\ \E k1 \in Range(last.keys), k2 \in Range(last.keys) :
          /\ FoundAt(last, k1) >= 1 /\ FoundAt(last, k1) < ChainLen
          /\ FoundAt(last, k2) = ChainLen
          /\ \E w \in TierCallsOf(last) :
                w.op = "PutBatch" /\ w.i = 0 /\ ~w.err /\ k1 \in DOMAIN w.vals

\* C9: Contains writes to no element of the chain: it issues only Contains
\* calls to the chain and leaves every element as it was.
C9_ContainsReadOnly ==
    [][last'.op = "Contains" =>
          /\ chain' = chain
          /\ \A c \in TierCallsOf(last') : c.op = "Contains"]_vars

C9_Witness ==
    /\ last.op = "Contains" /\ last.exists
    /\ \E c \in TierCallsOf(last) : c.i >= 1 /\ c.present # {}

\* The Get calls one full walk of the chain issues, in order.
FullWalk(r) ==
    /\ Cardinality(TierCallsOf(r)) = ChainLen
    /\ \A i \in DOMAIN chain :
          \E c \in TierCallsOf(r) : c.i = i /\ c.op = "Get"

\* The Get of record r looked its key up in the missing value cache and the
\* cache did not hold it.
FirstGet(r) ==
    /\ r.op = "Get" /\ missingCacheEnabled
    /\ \E c \in CacheCallsOf(r) : c.op = "Contains" /\ ~c.err /\ c.present = {}
    /\ \A i \in DOMAIN chain : r.keys[1] \notin DOMAIN chain[i]

\* A later Get of the key of r, whatever the stores return: (false, nil) with
\* no call to the chain, and nothing changed.
LaterGetsShortCircuit(r, cacheFails) ==
    \A failR \in SUBSET DOMAIN chain, failW \in SUBSET DOMAIN chain,
       ncFailR \in cacheFails, ncFailW \in BOOLEAN :
        LET o == GetOutcome(r.keys[1], failR, failW, ncFailR, ncFailW)
        IN  /\ ~o.res.exists /\ ~o.res.err
            /\ TierCallsOf(o.res) = {}
            /\ o.chain = chain /\ o.cache = missingCache

\* C10 (as stated): with the missing value cache enabled, the first Get of a
\* key absent from every element calls each element once and returns
\* (false, nil), and every later Get returns (false, nil) with no call to the
\* chain.
C10_OneWalkThenNone ==
    (FirstGet(last) /\ ChainLen >= 1) =>
        /\ FullWalk(last)
        /\ ~last.exists /\ ~last.err
        /\ LaterGetsShortCircuit(last, BOOLEAN)

\* C10 (amended): the first Get calls each element once; when the last element
\* returns no error it returns (false, nil); and when moreover the write to the
\* missing value cache returns no error, every later Get whose cache lookup
\* returns no error returns (false, nil) with no call to the chain.
C10_OneWalkThenNoneIfNoError ==
    (FirstGet(last) /\ ChainLen >= 1) =>
        /\ FullWalk(last)
        /\ (\A c \in TierCallsOf(last) : c.i = lastElementIndex => ~c.err) =>
              /\ ~last.exists /\ ~last.err
              /\ (\A c \in CacheCallsOf(last) : ~c.err) =>
                    LaterGetsShortCircuit(last, {FALSE})

C10_Witness ==
    /\ FirstGet(last) /\ ChainLen >= 2
    /\ ~last.err
    /\ \A c \in CallsOf(last) : ~c.err
    /\ last.keys[1] \in missingCache
\* C11: Put and PutBatch call the elements of the chain once each in chain
\* order 0, 1, ..., and call Delete on the missing value cache only after the
\* write to the last element has returned without error, never when the
\* operation returns an error.
C11_WriteOrder ==
    (last.op \in {"Put", "PutBatch"} /\ ChainLen >= 1) =>
        /\ \A j \in DOMAIN last.calls :
              LET c == last.calls[j]
              IN  /\ ~c.cache => (c.i = j - 1 /\ c.op = last.op)
                  /\ c.cache =>
                        /\ c.op = "Delete"
                        /\ ~last.err
                        /\ \E h \in 1..(j - 1) :
                              /\ ~last.calls[h].cache
                              /\ last.calls[h].i = lastElementIndex
                              /\ ~last.calls[h].err
        /\ ~last.err => Cardinality(TierCallsOf(last)) = ChainLen

C11_Witness ==
    /\ last.op = "PutBatch" /\ ChainLen >= 2 /\ ~last.err
    /\ \E c \in TierCallsOf(last) : c.i = 0 /\ c.err
    /\ Cardinality(CacheCallsOf(last)) >= 2
\* C12: a GetBatch or PutBatch whose keys or values cannot be morphed returns
\* an error and has called no element of the chain.
C12_CoercionBeforeTiers ==
    (last.op \in {"GetBatch", "PutBatch"} /\ ChainLen >= 1
        /\ ~(last.keysOk /\ last.valuesOk)) =>
        (last.err /\ TierCallsOf(last) = {})
\* C13: an error of the missing value cache is never returned and counts as a
\* miss: a Contains, Get or GetBatch whose lookup in the cache fails still
\* asks the chain for all its keys, and a failing Delete leaves the nil result
\* of Put and PutBatch as it is.
C13_CacheErrorIsMiss ==
    (ChainLen >= 1 /\ last.keysOk /\ last.valuesOk /\ Len(last.keys) > 0) =>
        /\ (last.op \in ReadOps
              /\ \E c \in CacheCallsOf(last) :
                    c.err /\ c.op \in {"Contains", "GetBatch"}) =>
              \E c \in TierCallsOf(last) : c.i = 0 /\ c.keys = last.keys
        /\ (last.op \in {"Put", "PutBatch"}
              /\ \E c \in CacheCallsOf(last) : c.err /\ c.op = "Delete") =>
              ~last.err
\* C14: when the context is cancelled and a call to an element of the chain
\* returns the context's error, the operation calls no further element and
\* returns that error itself: not wrapped, and not swallowed.
C14_CancellationSurfaces ==
    (last.op # "none" /\ ctxDone /\ last.keysOk /\ last.valuesOk) =>
        \A j \in DOMAIN last.calls :
            (~last.calls[j].cache /\ last.calls[j].err) =>
                /\ last.err /\ last.cause = "canceled" /\ ~last.wrapped
                /\ \A h \in DOMAIN last.calls : h > j => last.calls[h].cache
\* C15: the missing list GetBatch returns holds no key twice, whatever the
\* key sequence it was called with.
C15_MissingNoDuplicates ==
    (last.op = "GetBatch" /\ ~last.err) =>
        \A j, h \in DOMAIN last.missing :
            last.missing[j] = last.missing[h] => j = h
\* C16: a Get or GetBatch reads the elements of the chain in the order 0, 1,
\* ..., reads no element after the one that had the key (Get) or left no key
\* missing (GetBatch), and writes to the elements it propagates to only after
\* its last read, in descending order below foundInIndex: Get to every one of
\* foundInIndex - 1, ..., 0.
TierCallSeq(r) == SelectSeq(r.calls, LAMBDA c : ~c.cache)

IsRead(c) == c.op \in {"Get", "GetBatch"}

Satisfied(c) == ~c.err /\ Range(c.keys) \subseteq c.present

C16_ReadAndBackfillOrder ==
    last.op \in {"Get", "GetBatch"} =>
        LET t == TierCallSeq(last)
            nReads == Cardinality({j \in DOMAIN t : IsRead(t[j])})
        IN  /\ \A j \in DOMAIN t : IsRead(t[j]) <=> j <= nReads
            /\ \A j \in 1..nReads : t[j].i = j - 1
            /\ \A j \in 1..nReads : Satisfied(t[j]) => j = nReads
            /\ \A j \in (nReads + 1)..Len(t) :
                  /\ t[j].i < last.foundInIndex
                  /\ j > nReads + 1 => t[j].i < t[j - 1].i
                  /\ last.op = "Get" => t[j].i = last.foundInIndex - (j - nReads)
            /\ (last.op = "Get" /\ last.exists) => Len(t) = nReads + last.foundInIndex

C16_Witness ==
    /\ last.op = "Get" /\ last.exists /\ last.foundInIndex = 2
    /\ LET t == TierCallSeq(last)
       IN  /\ Len(t) = 5
           /\ t[1].err
           /\ t[4].i = 1 /\ t[4].op = "Put"
           /\ t[5].i = 0 /\ t[5].op = "Put"
\* Both concurrent callers have returned and no store call of theirs failed.
BothReturned == conc.r.pc = "done" /\ conc.w.pc = "done" /\ ~conc.failed

\* C17 (as claimed): when a Get or Contains that finds nothing runs
\* concurrently with a Put of the same key, the missing value cache does not
\* hold the key once both have returned, however their store calls interleave.
C17_NoStaleMiss ==
    (BothReturned /\ missingCacheEnabled /\ ~conc.r.exists) =>
        conc.key \notin missingCache

\* C17 (as the code has it): once both have returned, the missing value cache
\* holds the key exactly when the read stored its empty value after the Put
\* had made its Delete; an empty value stored before the Delete is removed.
C17_NoStaleMissUnlessStoredAfterDelete ==
    (BothReturned /\ missingCacheEnabled /\ ~conc.r.exists) =>
        (conc.key \in missingCache <=> conc.r.wPcAtMiss = "done")

C17_Witness ==
    /\ BothReturned /\ missingCacheEnabled /\ ~conc.r.exists
    /\ conc.r.wPcAtMiss = "delete"
    /\ conc.key \notin missingCache
    /\ \A i \in DOMAIN chain : TContains(chain[i], conc.key)

\* C18 (as claimed): when a Get runs concurrently with a Put of the same key
\* and no store fails, every element of the chain that holds the key holds the
\* value of the last element once both have returned.
C18_CoherentAfterRace ==
    (BothReturned /\ conc.r.op = "Get" /\ ChainLen >= 2) =>
        \A i \in DOMAIN chain :
            TContains(chain[i], conc.key) =>
                chain[i][conc.key] = chain[lastElementIndex][conc.key]

\* C18 (as the code has it): once both have returned, the last element holds
\* the value of the Put, and every other element holds the key with either
\* that value or the value the Get has read.
C18_TerminalHoldsPut ==
    (BothReturned /\ conc.r.op = "Get" /\ ChainLen >= 2) =>
        /\ chain[lastElementIndex][conc.key] = conc.w.value
        /\ \A i \in DOMAIN chain :
              /\ TContains(chain[i], conc.key)
              /\ \/ chain[i][conc.key] = conc.w.value
                 \/ conc.r.exists /\ chain[i][conc.key] = conc.r.value[conc.key]

C18_Witness ==
    /\ BothReturned /\ conc.r.op = "Get" /\ ChainLen >= 2 /\ conc.r.exists
    /\ conc.r.value[conc.key] # conc.w.value
    /\ chain[0][conc.key] = conc.r.value[conc.key]
    /\ chain[lastElementIndex][conc.key] = conc.w.value
\* C19: an operation that returns an error has left the missing value cache
\* as it was: it has made no Put, PutBatch or Delete call to it, and a
\* GetBatch that returns an error has made no PutBatch call to any element of
\* the chain.
C19_ErrorLeavesCache ==
    [][(last'.op # "none" /\ last'.err) =>
          /\ missingCache' = missingCache
          /\ \A c \in CacheCallsOf(last') : c.op \in {"Contains", "GetBatch"}
          /\ last'.op = "GetBatch" =>
                \A c \in TierCallsOf(last') : c.op = "GetBatch"]_vars

C19_Witness ==
    /\ last.op = "GetBatch" /\ last.err /\ last.cause = "store"
    /\ missingCacheEnabled
    /\ \E c \in TierCallsOf(last) : c.i = 0 /\ ~c.err /\ c.present = {}
    /\ \E c \in TierCallsOf(last) : c.i = 1 /\ ~c.err /\ c.present # {}
\* C20: when a transformer is registered for the model id and version of the
\* message and returns a model, and no output is registered for them, Consume
\* returns (false, error) and does not call Persist.
C20_NoOutputIsAnError ==
    (sub.res.called /\ sub.res.transformed = "model"
        /\ <<sub.res.modelId, sub.res.version>> \notin sub.outputs) =>
        (~sub.res.ok /\ sub.res.err /\ ~sub.res.persisted /\ ~sub.res.panicked)
\* C21: two CreateQueue calls made through the same *service are never both
\* between their s.lck.Lock() and their return, so the exists check, the
\* creation of the dead letter queue and of the queue and SetQueueAttributes
\* of one call do not interleave with those of another.
InCreateQueue(g) ==
    svc.calls[g].pc \in {"exists", "deadLetter", "create", "attributes"}

C21_MutualExclusion ==
    \A g, h \in Goroutines : (InCreateQueue(g) /\ InCreateQueue(h)) => g = h
====
